---------------------------- MODULE Spec2Model ----------------------------
(***************************************************************************)
(* Model of scripts/process_models.py: the asset pipeline that resets the  *)
(* scene, imports a GLB, normalizes every mesh, synthesizes the material   *)
(* node graph, sets up lights and the HDRI world, exports and writes a     *)
(* viewer page, for each of the three hard-coded models.                   *)
(*                                                                         *)
(* Conventions.  Float literals of the source are kept as strings          *)
(* ("0.2"); names are sequences of one-character strings so that lower()   *)
(* and the substring test are computed; geometry is one-dimensional        *)
(* (vertex coordinates are integers, a rotation is a half turn).           *)
(* Removing nodes in "for node in nodes: nodes.remove(node)" is modelled   *)
(* as emptying the node tree (and with it its links).                      *)
(***************************************************************************)
EXTENDS Integers, Sequences, FiniteSets, TLC

VARIABLES
    pc,         \* position of main / process_model
    run,        \* number of the current invocation of the script
    idx,        \* index into models of the asset of the current iteration
    objs,       \* bpy.data.objects: id -> object record
    selected,   \* ids of the selected objects
    queue,      \* imported_objects not yet visited by the for loop
    cur,        \* obj of the current loop iteration (0: none)
    nextId,     \* next fresh object id
    texFiles,   \* textures/<channel>.png: channel -> "absent" | "good" | "corrupt"
    hdriFile,   \* textures/studio_small_09.hdr: "absent" | "good" | "corrupt"
    imgSpace,   \* bpy.data.images: loaded image -> colorspace_settings.name
    world,      \* scene.world node tree
    panorama,   \* outcome of the latest panorama fetch/load
    history     \* what each run did (record of logs, see InitHistory)

vars == <<pc, run, idx, objs, selected, queue, cur, nextId,
          texFiles, hdriFile, imgSpace, world, panorama, history>>

-----------------------------------------------------------------------------
(* Bounds *)

MaxNameParts == 2
MaxMeshes == 2
MaxRuns == 2
MaxPasses == 2

-----------------------------------------------------------------------------
(* Strings: str.lower() and the "in" substring test *)

UpperCase == <<"A","B","C","D","E","F","G","H","I","J","K","L","M",
               "N","O","P","Q","R","S","T","U","V","W","X","Y","Z">>
LowerCase == <<"a","b","c","d","e","f","g","h","i","j","k","l","m",
               "n","o","p","q","r","s","t","u","v","w","x","y","z">>

LowerChar(c) ==
    IF \E i \in 1..Len(UpperCase) : UpperCase[i] = c
    THEN LowerCase[CHOOSE i \in 1..Len(UpperCase) : UpperCase[i] = c]
    ELSE c

Lower(s) == [i \in 1..Len(s) |-> LowerChar(s[i])]

Contains(s, sub) ==
    \E i \in 0..(Len(s) - Len(sub)) : SubSeq(s, i + 1, i + Len(sub)) = sub

gold == <<"g","o","l","d">>
silver == <<"s","i","l","v","e","r">>
metal == <<"m","e","t","a","l">>
diamond == <<"d","i","a","m","o","n","d">>
gem == <<"g","e","m">>

-----------------------------------------------------------------------------
(* Node graphs *)

Channels == {"albedo", "normal", "roughness", "metallic"}

NoImage == "None"

Node(var, type, image) == [var |-> var, type |-> type, image |-> image]

Link(fromVar, fromSocket, toVar, toSocket) == <<fromVar, fromSocket, toVar, toSocket>>

EmptyTree == [nodes |-> <<>>, links |-> {}]

ClearNodesKeeps(tree) == tree

\* for node in nodes: nodes.remove(node)
ClearNodes(tree) == EmptyTree

NodesNew(tree, node) == [tree EXCEPT !.nodes = Append(@, node)]

LinksNew(tree, link) == [tree EXCEPT !.links = @ \cup {link}]

NodesOfType(tree, type) == {i \in 1..Len(tree.nodes) : tree.nodes[i].type = type}

-----------------------------------------------------------------------------
(* load_texture / create_texture_node *)

ColorSpaceName(color_space) == IF color_space = "sRGB" THEN "sRGB" ELSE "Non-Color"

\* The image load_texture returns (NoImage for None).
LoadTextureImg(files, texture_name) ==
    IF files[texture_name] = "good" THEN texture_name ELSE NoImage

\* bpy.data.images after load_texture.
LoadTextureSpaces(files, spaces, texture_name, color_space) ==
    IF files[texture_name] = "good"
    THEN [n \in (DOMAIN spaces) \cup {texture_name} |->
            IF n = texture_name THEN ColorSpaceName(color_space) ELSE spaces[n]]
    ELSE spaces

\* The node tree after create_texture_node (unchanged when img is None).
CreateTextureNode(tree, img, var) ==
    IF img = NoImage THEN tree ELSE NodesNew(tree, Node(var, "ShaderNodeTexImage", img))

CreateTextureNodeSpaces(spaces, img, color_space) ==
    IF img = NoImage THEN spaces
    ELSE [spaces EXCEPT ![img] = ColorSpaceName(color_space)]

-----------------------------------------------------------------------------
(* process_materials: the graph of one material slot *)

\* slot.material is None
NoMat == [none |-> TRUE]

HasMaterial(m) == "tree" \in DOMAIN m

NodeDefault == "node_default"

\* The inputs of a Principled BSDF node this script never touched.
UntouchedInputs ==
    [Specular |-> NodeDefault, Roughness |-> NodeDefault, Metallic |-> NodeDefault,
     Transmission |-> NodeDefault, IOR |-> NodeDefault]

\* "Default material settings"
DefaultSettings(inputs) ==
    [inputs EXCEPT !.Specular = "0.5", !.Roughness = "0.7", !.Metallic = "0.0"]

\* "Adjust material settings based on material type"
ClassifyWrongOrder(inputs, mat_name) ==
    IF Contains(mat_name, silver) \/ Contains(mat_name, metal)
    THEN [inputs EXCEPT !.Metallic = "1.0", !.Roughness = "0.1"]
    ELSE IF Contains(mat_name, gold)
    THEN [inputs EXCEPT !.Metallic = "1.0", !.Roughness = "0.2"]
    ELSE IF Contains(mat_name, diamond) \/ Contains(mat_name, gem)
    THEN [inputs EXCEPT !.Metallic = "0.0", !.Roughness = "0.02",
                        !.Transmission = "1.0", !.IOR = "2.4"]
    ELSE inputs

Classify(inputs, mat_name) ==
    IF Contains(mat_name, gold)
    THEN [inputs EXCEPT !.Metallic = "1.0", !.Roughness = "0.2"]
    ELSE IF Contains(mat_name, silver) \/ Contains(mat_name, metal)
    THEN [inputs EXCEPT !.Metallic = "1.0", !.Roughness = "0.1"]
    ELSE IF Contains(mat_name, diamond) \/ Contains(mat_name, gem)
    THEN [inputs EXCEPT !.Metallic = "0.0", !.Roughness = "0.02",
                        !.Transmission = "1.0", !.IOR = "2.4"]
    ELSE inputs

\* "Add base color texture if available"
AddBaseColor(tree, img) ==
    IF img = NoImage THEN tree
    ELSE LinksNew(LinksNew(CreateTextureNode(tree, img, "tex_color"),
            Link("mapping", "Vector", "tex_color", "Vector")),
            Link("tex_color", "Color", "bsdf", "Base Color"))

\* "Add normal map if available"
AddNormal(tree, img) ==
    IF img = NoImage THEN tree
    ELSE LinksNew(LinksNew(LinksNew(
            NodesNew(CreateTextureNode(tree, img, "tex_normal"),
                     Node("normal_map_node", "ShaderNodeNormalMap", NoImage)),
            Link("mapping", "Vector", "tex_normal", "Vector")),
            Link("tex_normal", "Color", "normal_map_node", "Color")),
            Link("normal_map_node", "Normal", "bsdf", "Normal"))

\* "Add roughness map if available"
AddRoughnessMiswired(tree, img) ==
    IF img = NoImage THEN tree
    ELSE LinksNew(LinksNew(CreateTextureNode(tree, img, "tex_roughness"),
            Link("mapping", "Vector", "tex_roughness", "Vector")),
            Link("tex_roughness", "Color", "bsdf", "Metallic"))

AddRoughness(tree, img) ==
    IF img = NoImage THEN tree
    ELSE LinksNew(LinksNew(CreateTextureNode(tree, img, "tex_roughness"),
            Link("mapping", "Vector", "tex_roughness", "Vector")),
            Link("tex_roughness", "Color", "bsdf", "Roughness"))

\* "Add metallic map if available"
AddMetallic(tree, img) ==
    IF img = NoImage THEN tree
    ELSE LinksNew(LinksNew(CreateTextureNode(tree, img, "tex_metallic"),
            Link("mapping", "Vector", "tex_metallic", "Vector")),
            Link("tex_metallic", "Color", "bsdf", "Metallic"))

\* The body of "for slot in obj.material_slots" for a slot that has a
\* material; imgs maps each channel to the image load_texture returned.
ProcessSlot(mat, imgs) ==
    LET t0 == ClearNodes(mat.tree)
        t1 == NodesNew(NodesNew(t0, Node("bsdf", "ShaderNodeBsdfPrincipled", NoImage)),
                       Node("output", "ShaderNodeOutputMaterial", NoImage))
        in0 == DefaultSettings(UntouchedInputs)
        mat_name == Lower(mat.name)
        t2 == LinksNew(NodesNew(NodesNew(t1, Node("tex_coord", "ShaderNodeTexCoord", NoImage)),
                                Node("mapping", "ShaderNodeMapping", NoImage)),
                       Link("tex_coord", "UV", "mapping", "Vector"))
        t3 == AddBaseColor(t2, imgs["albedo"])
        t4 == AddNormal(t3, imgs["normal"])
        t5 == AddRoughness(t4, imgs["roughness"])
        t6 == AddMetallic(t5, imgs["metallic"])
        t7 == LinksNew(t6, Link("bsdf", "BSDF", "output", "Surface"))
    IN  [mat EXCEPT !.use_nodes = TRUE, !.tree = t7, !.inputs = Classify(in0, mat_name)]

\* load_texture's color_space argument for each channel (lines 168-171).
ChannelSpace(ch) == IF ch = "albedo" THEN "sRGB" ELSE "Non-Color"

\* obj.material_slots after process_materials(obj).
ProcessMaterials(slots, files) ==
    LET imgs == [ch \in Channels |-> LoadTextureImg(files, ch)]
    IN  [i \in 1..Len(slots) |->
            IF HasMaterial(slots[i]) THEN ProcessSlot(slots[i], imgs) ELSE NoMat]

RECURSIVE SpacesFold(_, _, _, _)
SpacesFold(files, spaces, chans, create) ==
    IF chans = {} THEN spaces
    ELSE LET ch == CHOOSE c \in chans : TRUE
             s1 == LoadTextureSpaces(files, spaces, ch, ChannelSpace(ch))
             s2 == IF create
                   THEN CreateTextureNodeSpaces(s1, LoadTextureImg(files, ch), ChannelSpace(ch))
                   ELSE s1
         IN  SpacesFold(files, s2, chans \ {ch}, create)

\* bpy.data.images after process_materials(obj).
ProcessMaterialsSpaces(slots, files, spaces) ==
    IF Len(slots) = 0 THEN spaces
    ELSE SpacesFold(files, spaces, Channels, \E i \in 1..Len(slots) : HasMaterial(slots[i]))

-----------------------------------------------------------------------------
(* Objects and the selection-based operators *)

Rot(r, x) == IF r = 1 THEN 0 - x ELSE x

RECURSIVE SeqMin(_)
SeqMin(s) ==
    IF Len(s) = 1 THEN s[1]
    ELSE LET m == SeqMin(Tail(s)) IN IF s[1] < m THEN s[1] ELSE m

RECURSIVE SeqMax(_)
SeqMax(s) ==
    IF Len(s) = 1 THEN s[1]
    ELSE LET m == SeqMax(Tail(s)) IN IF s[1] > m THEN s[1] ELSE m

\* Centre of the bounding box of the stored geometry (local coordinates).
BoundsCenter(verts) ==
    IF Len(verts) = 0 THEN 0 ELSE (SeqMin(verts) + SeqMax(verts)) \div 2

\* bpy.ops.object.transform_apply(location=False, rotation=True, scale=True)
\* on one selected object.
TransformApply(o) ==
    [o EXCEPT !.verts = [i \in 1..Len(o.verts) |-> Rot(o.rot, o.scale * o.verts[i])],
              !.scale = 1, !.rot = 0]

\* bpy.ops.object.origin_set(type='ORIGIN_GEOMETRY', center='BOUNDS')
\* on one selected object: the origin moves, the vertices stay where they
\* are in the world.
OriginSetWrongSign(o) ==
    LET c == BoundsCenter(o.verts)
    IN  [o EXCEPT !.verts = [i \in 1..Len(o.verts) |-> o.verts[i] + c],
                  !.loc = o.loc + Rot(o.rot, o.scale * c)]

OriginSet(o) ==
    LET c == BoundsCenter(o.verts)
    IN  [o EXCEPT !.verts = [i \in 1..Len(o.verts) |-> o.verts[i] - c],
                  !.loc = o.loc + Rot(o.rot, o.scale * c)]

\* bpy.ops.object.shade_smooth() on one selected object: every polygon is
\* flagged smooth.
ShadeSmooth(o) == [o EXCEPT !.smooth = o.polys]

\* bpy.ops.mesh.normals_make_consistent(inside=False) on one object in
\* edit mode.
NormalsMakeConsistent(o) == [o EXCEPT !.flipped = FALSE]

Logged(o, step) == [o EXCEPT !.log = Append(@, step)]

\* The operator bpy.ops.<op> on one object.
Operate(op, o) ==
    CASE op = "transform_apply" -> TransformApply(o)
      [] op = "origin_set" -> OriginSet(o)
      [] op = "shade_smooth" -> ShadeSmooth(o)
      [] op = "normals_make_consistent" -> NormalsMakeConsistent(o)

\* bpy.ops.<op> acts on the mesh objects of ids and leaves the others alone.
OnMeshes(os, ids, op) ==
    [i \in DOMAIN os |-> IF i \in ids /\ os[i].type = "MESH" THEN Operate(op, os[i]) ELSE os[i]]

-----------------------------------------------------------------------------
(* Object records *)

Obj(type, name, origin) ==
    [type |-> type, name |-> name, origin |-> origin,
     verts |-> <<>>, scale |-> 1, rot |-> 0, loc |-> 0,
     polys |-> 0, smooth |-> 0, flipped |-> FALSE,
     use_auto_smooth |-> FALSE, auto_smooth_angle |-> NodeDefault,
     slots |-> <<>>, energy |-> "0.0", log |-> <<>>]

MeshObj(name, verts, scale, rot, loc, polys, flipped, slots) ==
    [Obj("MESH", name, 0) EXCEPT !.verts = verts, !.scale = scale, !.rot = rot,
                                 !.loc = loc, !.polys = polys, !.flipped = flipped,
                                 !.slots = slots]

LightObj(name, origin, energy) == [Obj("LIGHT", name, origin) EXCEPT !.energy = energy]

CameraObj(name, origin) == Obj("CAMERA", name, origin)

AddObj(os, id, o) == [i \in (DOMAIN os) \cup {id} |-> IF i = id THEN o ELSE os[i]]

\* bpy.ops.object.select_by_type(type=t): extend defaults to False.
SelectByTypeExtend(os, sel, t) == sel \cup {i \in DOMAIN os : os[i].type = t}

SelectByType(os, sel, t) == {i \in DOMAIN os : os[i].type = t}

\* bpy.ops.object.delete(): the selected objects leave bpy.data.objects.
Delete(os, sel) == [i \in (DOMAIN os) \ sel |-> os[i]]

\* clear_scene()
ClearSceneKeepCameras(os, sel) ==
    LET o1 == Delete(os, SelectByType(os, {}, "MESH"))
    IN  Delete(o1, SelectByType(o1, {}, "LIGHT"))

ClearSceneObjs(os, sel) ==
    LET o1 == Delete(os, SelectByType(os, {}, "MESH"))
        o2 == Delete(o1, SelectByType(o1, {}, "LIGHT"))
    IN  Delete(o2, SelectByType(o2, {}, "CAMERA"))

\* "Remove existing lights" of setup_lighting()
RemoveLightsExtend(os, sel) == Delete(os, SelectByTypeExtend(os, sel, "LIGHT"))

RemoveLights(os, sel) == Delete(os, SelectByType(os, sel, "LIGHT"))

\* The three lights setup_lighting() links into the collection.
StudioLights(origin) ==
    <<LightObj(<<"Key Light">>, origin, "2.0"),
      [LightObj(<<"Fill Light">>, origin, "5.0") EXCEPT !.loc = 5],
      [LightObj(<<"Rim Light">>, origin, "3.0") EXCEPT !.loc = 0 - 5]>>

RECURSIVE AddAll(_, _, _)
AddAll(os, id, new) ==
    IF new = <<>> THEN os ELSE AddAll(AddObj(os, id, Head(new)), id + 1, Tail(new))

RECURSIVE SortedIds(_)
SortedIds(ids) ==
    IF ids = {} THEN <<>>
    ELSE LET m == CHOOSE i \in ids : \A j \in ids : i <= j
         IN  <<m>> \o SortedIds(ids \ {m})

-----------------------------------------------------------------------------
(* The world node tree: setup_hdri *)

HdrImage == "studio_small_09.hdr"

FallbackColor == "(0.05, 0.05, 0.05, 1.0)"

\* The world of Blender's startup file.
StartupWorld ==
    [tree |-> [nodes |-> <<Node("Background", "ShaderNodeBackground", NoImage),
                           Node("World Output", "ShaderNodeOutputWorld", NoImage)>>,
               links |-> {Link("Background", "Background", "World Output", "Surface")}],
     env_color |-> NodeDefault]

\* setup_hdri(hdri_path); file is the state of the panorama file.
SetupHdri(w, file) ==
    LET t0 == ClearNodes(w.tree)
        loaded == (file = "good")
        t1 == NodesNew(t0, Node("env_tex", "ShaderNodeTexEnvironment",
                                IF loaded THEN HdrImage ELSE NoImage))
        t2 == NodesNew(t1, Node("background", "ShaderNodeBackground", NoImage))
        t3 == NodesNew(t2, Node("env_mapping", "ShaderNodeMapping", NoImage))
        t4 == NodesNew(t3, Node("tex_coord", "ShaderNodeTexCoord", NoImage))
        t5 == LinksNew(LinksNew(LinksNew(t4,
                Link("tex_coord", "Generated", "env_mapping", "Vector")),
                Link("env_mapping", "Vector", "env_tex", "Vector")),
                Link("env_tex", "Color", "background", "Color"))
        t6 == NodesNew(t5, Node("mix_shader", "ShaderNodeMixShader", NoImage))
        t7 == NodesNew(t6, Node("ao", "ShaderNodeAmbientOcclusion", NoImage))
        t8 == NodesNew(t7, Node("output", "ShaderNodeOutputWorld", NoImage))
        t9 == LinksNew(LinksNew(LinksNew(t8,
                Link("background", "Background", "mix_shader", "1")),
                Link("ao", "Color", "mix_shader", "2")),
                Link("mix_shader", "0", "output", "Surface"))
    IN  [tree |-> t9, env_color |-> IF loaded THEN NodeDefault ELSE FallbackColor]

\* Nodes (variable and type, in creation order) and links, without the
\* images and values the nodes carry.
Topology(tree) ==
    [nodes |-> [i \in 1..Len(tree.nodes) |-> <<tree.nodes[i].var, tree.nodes[i].type>>],
     links |-> tree.links]

-----------------------------------------------------------------------------
(* Inputs *)

\* models of main(): ring, earring, shoe
Models == <<"ring", "earring", "shoe">>

Assets == 1..Len(Models)

Mat(name, tree) ==
    [name |-> name, use_nodes |-> (tree # EmptyTree), tree |-> tree,
     inputs |-> UntouchedInputs]

\* A node tree as the glTF importer builds it: an embedded texture feeds
\* the surface node.
ImportedTree ==
    [nodes |-> <<Node("pre_bsdf", "ShaderNodeBsdfPrincipled", NoImage),
                 Node("pre_tex", "ShaderNodeTexImage", "embedded"),
                 Node("pre_out", "ShaderNodeOutputMaterial", NoImage)>>,
     links |-> {Link("pre_tex", "Color", "pre_bsdf", "Base Color"),
                Link("pre_bsdf", "BSDF", "pre_out", "Surface")}]

\* A node tree process_materials built in an earlier call, with every
\* channel's texture found.
SynthesizedTree == ProcessSlot(Mat(gold, EmptyTree), [ch \in Channels |-> ch]).tree

NameParts ==
    {gold, <<"G","o","L","D">>, silver, <<"M","e","t","a","l">>, diamond,
     <<"G","E","M">>, <<"g","o","l">>, <<"w","o","o","d">>, <<"_">>}

RECURSIVE NamesUpTo(_)
NamesUpTo(n) ==
    IF n = 0 THEN {<<>>}
    ELSE LET shorter == NamesUpTo(n - 1)
         IN  shorter \cup {a \o b : a \in shorter, b \in NameParts}

MaterialNames == NamesUpTo(MaxNameParts)

AllTexFiles == [Channels -> {"absent", "good", "corrupt"}]

\* The texture directories the pipeline runs are explored with.
PipelineTexFiles ==
    {[ch \in Channels |-> "absent"],
     [ch \in Channels |-> IF ch = "albedo" THEN "good" ELSE "absent"],
     [ch \in Channels |-> IF ch = "normal" THEN "corrupt" ELSE "good"]}

\* The meshes the imported files of the pipeline runs are made of.
PipelineMeshes ==
    {MeshObj(<<"Band">>, <<0, 4>>, 2, 1, 3, 2, TRUE,
             <<Mat(<<"W","h","i","t","e","G","o","l","d">>, ImportedTree)>>),
     MeshObj(<<"Empty">>, <<>>, 3, 0, 1, 0, FALSE, <<>>)}

\* The meshes the normalization loop is explored with.
LoopMeshes ==
    PipelineMeshes \cup
    {MeshObj(<<"Stone">>, <<2, 4, 8>>, 3, 0, 0 - 1, 2, FALSE,
             <<NoMat, Mat(<<"G","e","m">>, EmptyTree)>>),
     MeshObj(<<"Wire">>, <<0 - 2, 6>>, 1, 1, 0, 0, TRUE, <<NoMat>>),
     MeshObj(<<"Sole">>, <<0 - 2, 2>>, 1, 0, 0, 2, FALSE, <<>>)}

RECURSIVE SeqsUpTo(_, _)
SeqsUpTo(S, n) ==
    IF n = 0 THEN {<<>>}
    ELSE LET shorter == SeqsUpTo(S, n - 1)
         IN  shorter \cup {Append(q, x) : q \in shorter, x \in S}

\* The scene of Blender's startup file.
StartupObjs ==
    AddAll(<<>>, 1,
           <<MeshObj(<<"Cube">>, <<0 - 2, 2>>, 1, 0, 0, 2, FALSE,
                     <<Mat(<<"M","a","t","e","r","i","a","l">>, ImportedTree)>>),
             LightObj(<<"Light">>, 0, "1000.0"),
             CameraObj(<<"Camera">>, 0)>>)

NoImages == [n \in {} |-> ""]

InitHistory(hadFile) ==
    [attempted |-> {}, skipped |-> {}, resets |-> {}, imports |-> {},
     exported |-> {}, viewerStage |-> {}, pages |-> {}, failed |-> {},
     removed |-> {}, passes |-> 1, snapshot |-> <<>>,
     stages |-> [a \in Assets |-> <<>>], before |-> <<>>,
     fetches |-> [r \in 1..MaxRuns |-> 0],
     hadFile |-> [r \in 1..MaxRuns |-> IF r = 1 THEN hadFile ELSE FALSE],
     topos |-> [r \in 1..MaxRuns |-> {}]]

-----------------------------------------------------------------------------
(* The pipeline: main() and process_model() *)

Init ==
    /\ pc = "start"
    /\ run = 1
    /\ idx = 1
    /\ objs = StartupObjs
    /\ selected = {1}
    /\ queue = <<>>
    /\ cur = 0
    /\ nextId = 4
    /\ texFiles \in PipelineTexFiles
    /\ hdriFile \in {"absent", "good", "corrupt"}
    /\ imgSpace = NoImages
    /\ world = StartupWorld
    /\ panorama = "unknown"
    /\ history = InitHistory(hdriFile # "absent")

sceneVars == <<objs, selected, queue, cur, nextId>>

\* The history with stage added to the stages the asset a went through.
Staged(h, a, stage) == [h EXCEPT !.stages[a] = Append(@, stage)]

\* The objects a stage took out of bpy.data.objects, as <<stage, type>>.
Removed(stage, before, after) ==
    {<<stage, before[i].type>> : i \in (DOMAIN before) \ (DOMAIN after)}

\* download_hdri(), continuing at next when it returns.
DownloadHdriAlways(next) ==
    \E got \in {"good", "corrupt", "fail"} :
        /\ history' = [history EXCEPT !.fetches[run] = @ + 1]
        /\ IF got = "fail"
           THEN /\ pc' = "crashed"
                /\ panorama' = "fetch_failed"
                /\ UNCHANGED hdriFile
           ELSE /\ pc' = next
                /\ panorama' = "present"
                /\ hdriFile' = got

DownloadHdri(next) ==
    IF hdriFile # "absent"
    THEN /\ pc' = next
         /\ panorama' = "present"
         /\ UNCHANGED <<hdriFile, history>>
    ELSE \E got \in {"good", "corrupt", "fail"} :
            /\ history' = [history EXCEPT !.fetches[run] = @ + 1]
            /\ IF got = "fail"
               THEN /\ pc' = "crashed"
                    /\ panorama' = "fetch_failed"
                    /\ UNCHANGED hdriFile
               ELSE /\ pc' = next
                    /\ panorama' = "present"
                    /\ hdriFile' = got

\* setup_hdri(hdri_path), continuing at next.
SetupHdriStep(next) ==
    /\ world' = SetupHdri(world, hdriFile)
    /\ panorama' = IF hdriFile = "good" THEN "loaded" ELSE "load_failed"
    /\ imgSpace' = IF hdriFile = "good"
                   THEN [n \in (DOMAIN imgSpace) \cup {HdrImage} |->
                            IF n = HdrImage THEN "Filmic sRGB" ELSE imgSpace[n]]
                   ELSE imgSpace
    /\ LET h == [history EXCEPT !.topos[run] = @ \cup {Topology(world'.tree)}]
       IN  history' = IF pc = "setup_hdri" THEN Staged(h, idx, "SetupEnvironment") ELSE h
    /\ pc' = next

\* main(), line 394
MainDownloadHdri ==
    /\ pc = "start"
    /\ DownloadHdri("main_setup_hdri")
    /\ UNCHANGED <<run, idx, sceneVars, texFiles, imgSpace, world>>

\* main(), line 397
MainSetupHdri ==
    /\ pc = "main_setup_hdri"
    /\ SetupHdriStep("models")
    /\ UNCHANGED <<run, idx, sceneVars, texFiles, hdriFile>>

\* main(), lines 406-413: the next model and the check of its source file
NextModel ==
    /\ pc = "models"
    /\ IF idx > Len(Models)
       THEN /\ pc' = "documentation"
            /\ UNCHANGED history
       ELSE \E exists \in BOOLEAN :
            IF exists
            THEN /\ pc' = "clear"
                 /\ history' = [history EXCEPT !.attempted = @ \cup {idx}]
            ELSE /\ pc' = "skip"
                 /\ history' = [history EXCEPT !.attempted = @ \cup {idx},
                                               !.skipped = @ \cup {idx}]
    /\ UNCHANGED <<run, idx, sceneVars, texFiles, hdriFile, imgSpace, world, panorama>>

\* main(), line 413: continue
SkipModel ==
    /\ pc = "skip"
    /\ idx' = idx + 1
    /\ pc' = "models"
    /\ UNCHANGED <<run, sceneVars, texFiles, hdriFile, imgSpace, world, panorama, history>>

\* process_model(), line 289
ClearScene ==
    /\ pc = "clear"
    /\ objs' = ClearSceneObjs(objs, selected)
    /\ selected' = {}
    /\ nextId' = 1
    /\ history' = Staged([history EXCEPT !.resets = @ \cup {idx},
                                         !.removed = @ \cup Removed("clear", objs, objs')],
                          idx, "ResetScene")
    /\ pc' = "import"
    /\ UNCHANGED <<run, idx, queue, cur, texFiles, hdriFile, imgSpace, world, panorama>>

\* What a GLB file holds: meshes, possibly a light and a camera.
Imports(catalog) ==
    {meshes \o extra : meshes \in SeqsUpTo(catalog, MaxMeshes),
                       extra \in {<<>>, <<LightObj(<<"Point">>, 0, "10.0")>>,
                                  <<CameraObj(<<"Camera">>, 0)>>,
                                  <<LightObj(<<"Point">>, 0, "10.0"),
                                    CameraObj(<<"Camera">>, 0)>>}}

Stamp(new, origin) == [i \in 1..Len(new) |-> [new[i] EXCEPT !.origin = origin]]

\* process_model(), lines 292-295: the import and the list of the meshes
\* of the scene.  The importer may leave what it imported selected.
Import ==
    /\ pc = "import"
    /\ \/ /\ pc' = "crashed"
          /\ history' = [history EXCEPT !.failed = @ \cup {idx}]
          /\ UNCHANGED sceneVars
       \/ \E new \in Imports(PipelineMeshes), leaveSelected \in BOOLEAN :
          /\ objs' = AddAll(objs, nextId, Stamp(new, idx))
          /\ nextId' = nextId + Len(new)
          /\ selected' = IF leaveSelected THEN nextId..(nextId + Len(new) - 1) ELSE {}
          /\ queue' = SortedIds({i \in DOMAIN objs' : objs'[i].type = "MESH"})
          /\ cur' = 0
          /\ history' = Staged([history EXCEPT !.imports = @ \cup {idx}], idx, "Import")
          /\ pc' = "for"
    /\ UNCHANGED <<run, idx, texFiles, hdriFile, imgSpace, world, panorama>>

normFrame == <<run, idx, nextId, texFiles, hdriFile, world, panorama, history>>

\* process_model(), lines 298-301: the next obj of the loop is selected
ForObjCenterFirst ==
    /\ pc = "for"
    /\ IF queue = <<>>
       THEN /\ pc' = "camera"
            /\ cur' = 0
            /\ history' = Staged(history, idx, "Normalize")
            /\ UNCHANGED <<queue, selected>>
       ELSE /\ cur' = Head(queue)
            /\ queue' = Tail(queue)
            /\ selected' = selected \cup {Head(queue)}
            /\ pc' = "center"
            /\ UNCHANGED history
    /\ UNCHANGED <<objs, imgSpace, run, idx, nextId, texFiles, hdriFile, world, panorama>>

ForObjStopsEarly ==
    /\ pc = "for"
    /\ IF queue = <<>> \/ cur # 0
       THEN /\ pc' = "camera"
            /\ cur' = 0
            /\ history' = Staged(history, idx, "Normalize")
            /\ UNCHANGED <<queue, selected>>
       ELSE /\ cur' = Head(queue)
            /\ queue' = Tail(queue)
            /\ selected' = selected \cup {Head(queue)}
            /\ pc' = "bake"
            /\ UNCHANGED history
    /\ UNCHANGED <<objs, imgSpace, run, idx, nextId, texFiles, hdriFile, world, panorama>>

ForObj ==
    /\ pc = "for"
    /\ IF queue = <<>>
       THEN /\ pc' = "camera"
            /\ cur' = 0
            /\ history' = Staged(history, idx, "Normalize")
            /\ UNCHANGED <<queue, selected>>
       ELSE /\ cur' = Head(queue)
            /\ queue' = Tail(queue)
            /\ selected' = selected \cup {Head(queue)}
            /\ pc' = "bake"
            /\ UNCHANGED history
    /\ UNCHANGED <<objs, imgSpace, run, idx, nextId, texFiles, hdriFile, world, panorama>>

\* process_model(), lines 304-306
TransformBake ==
    /\ pc = "bake"
    /\ LET reset == [objs EXCEPT ![cur].scale = 1, ![cur].rot = 0]
           applied == OnMeshes(reset, selected, "transform_apply")
       IN  objs' = [applied EXCEPT ![cur] = Logged(@, "TransformBaked")]
    /\ pc' = "center"
    /\ UNCHANGED <<selected, queue, cur, imgSpace>>
    /\ UNCHANGED normFrame

\* process_model(), lines 309-310
OriginCenter ==
    /\ pc = "center"
    /\ LET moved == OnMeshes(objs, selected, "origin_set")
       IN  objs' = [moved EXCEPT ![cur].loc = 0, ![cur] = Logged(@, "OriginCentered")]
    /\ pc' = "shade"
    /\ UNCHANGED <<selected, queue, cur, imgSpace>>
    /\ UNCHANGED normFrame

\* process_model(), line 313: process_materials(obj)
Shade ==
    /\ pc = "shade"
    /\ objs' = [objs EXCEPT ![cur].slots = ProcessMaterials(@, texFiles),
                            ![cur] = Logged(@, "Shaded")]
    /\ imgSpace' = ProcessMaterialsSpaces(objs[cur].slots, texFiles, imgSpace)
    /\ history' = [history EXCEPT !.before = objs[cur].slots]
    /\ pc' = "smooth"
    /\ UNCHANGED <<selected, queue, cur>>
    /\ UNCHANGED <<run, idx, nextId, texFiles, hdriFile, world, panorama>>

\* process_model(), lines 316-319
SmoothUnguarded ==
    /\ pc = "smooth"
    /\ LET shaded == OnMeshes(objs, selected, "shade_smooth")
       IN  objs' = [shaded EXCEPT ![cur].use_auto_smooth = TRUE,
                                  ![cur].auto_smooth_angle = "1.0472",
                                  ![cur] = Logged(@, "Smoothed")]
    /\ pc' = "normals"
    /\ UNCHANGED <<selected, queue, cur, imgSpace>>
    /\ UNCHANGED normFrame

Smooth ==
    /\ pc = "smooth"
    /\ IF objs[cur].polys > 0
       THEN LET shaded == OnMeshes(objs, selected, "shade_smooth")
            IN  objs' = [shaded EXCEPT ![cur].use_auto_smooth = TRUE,
                                       ![cur].auto_smooth_angle = "1.0472",
                                       ![cur] = Logged(@, "Smoothed")]
       ELSE UNCHANGED objs
    /\ pc' = "normals"
    /\ UNCHANGED <<selected, queue, cur, imgSpace>>
    /\ UNCHANGED normFrame

\* process_model(), lines 322-325: edit mode holds the active object and
\* the other selected meshes
FixNormals ==
    /\ pc = "normals"
    /\ LET fixed == OnMeshes(objs, selected \cup {cur}, "normals_make_consistent")
       IN  objs' = [fixed EXCEPT ![cur] = Logged(@, "NormalsFixed")]
    /\ pc' = "deselect"
    /\ UNCHANGED <<selected, queue, cur, imgSpace>>
    /\ UNCHANGED normFrame

\* process_model(), line 328
Deselect ==
    /\ pc = "deselect"
    /\ selected' = selected \ {cur}
    /\ objs' = [objs EXCEPT ![cur] = Logged(@, "Done")]
    /\ pc' = "for"
    /\ UNCHANGED <<queue, cur, imgSpace>>
    /\ UNCHANGED normFrame

\* process_model(), lines 331-335
EnsureCamera ==
    /\ pc = "camera"
    /\ IF \E i \in DOMAIN objs : objs[i].name = <<"Camera">>
       THEN UNCHANGED <<objs, selected, nextId>>
       ELSE /\ objs' = AddObj(objs, nextId, CameraObj(<<"Camera">>, idx))
            /\ selected' = {nextId}
            /\ nextId' = nextId + 1
    /\ pc' = "lighting"
    /\ history' = Staged(history, idx, "EnsureCamera")
    /\ UNCHANGED <<run, idx, queue, cur, texFiles, hdriFile, imgSpace, world, panorama>>

\* process_model(), line 338: setup_lighting()
SetupLighting ==
    /\ pc = "lighting"
    /\ objs' = AddAll(RemoveLights(objs, selected), nextId, StudioLights(idx))
    /\ selected' = {}
    /\ nextId' = nextId + 3
    /\ history' = Staged([history EXCEPT !.removed = @ \cup Removed("lighting", objs, objs')],
                          idx, "SetupLighting")
    /\ pc' = "download_hdri"
    /\ UNCHANGED <<run, idx, queue, cur, texFiles, hdriFile, imgSpace, world, panorama>>

\* process_model(), line 339: download_hdri()
ModelDownloadHdri ==
    /\ pc = "download_hdri"
    /\ DownloadHdri("setup_hdri")
    /\ UNCHANGED <<run, idx, sceneVars, texFiles, imgSpace, world>>

\* process_model(), line 339: setup_hdri(...)
ModelSetupHdri ==
    /\ pc = "setup_hdri"
    /\ SetupHdriStep("render")
    /\ UNCHANGED <<run, idx, sceneVars, texFiles, hdriFile>>

\* process_model(), lines 342-344: the render settings are fixed values
ConfigureRenderSettings ==
    /\ pc = "render"
    /\ pc' = "export"
    /\ history' = Staged(history, idx, "ConfigureRenderSettings")
    /\ UNCHANGED <<run, idx, sceneVars, texFiles, hdriFile, imgSpace, world, panorama>>

\* process_model(), lines 347-369: the export
Export ==
    /\ pc = "export"
    /\ \E written \in BOOLEAN :
        IF written
        THEN /\ history' = Staged([history EXCEPT !.exported = @ \cup {idx}], idx, "Export")
             /\ pc' = "viewer"
        ELSE /\ history' = [history EXCEPT !.failed = @ \cup {idx}]
             /\ pc' = "crashed"
    /\ UNCHANGED <<run, idx, sceneVars, texFiles, hdriFile, imgSpace, world, panorama>>

\* main(), line 419: generate_html_viewer catches a failed write
GenerateViewer ==
    /\ pc = "viewer"
    /\ \E written \in BOOLEAN :
        history' = Staged([history EXCEPT !.viewerStage = @ \cup {idx},
                                          !.pages = IF written THEN @ \cup {idx} ELSE @,
                                          !.failed = IF written THEN @ ELSE @ \cup {idx}],
                          idx, "GenerateViewer")
    /\ idx' = idx + 1
    /\ pc' = "models"
    /\ UNCHANGED <<run, sceneVars, texFiles, hdriFile, imgSpace, world, panorama>>

\* main(), lines 422-425: generate_documentation() and create_final_zip()
Finish ==
    /\ pc = "documentation"
    /\ \E written \in BOOLEAN : pc' = IF written THEN "done" ELSE "crashed"
    /\ UNCHANGED <<run, idx, sceneVars, texFiles, hdriFile, imgSpace, world,
                   panorama, history>>

Ended == pc \in {"done", "crashed"}

Next ==
    \/ MainDownloadHdri
    \/ MainSetupHdri
    \/ NextModel
    \/ SkipModel
    \/ ClearScene
    \/ Import
    \/ ForObj
    \/ TransformBake
    \/ OriginCenter
    \/ Shade
    \/ Smooth
    \/ FixNormals
    \/ Deselect
    \/ EnsureCamera
    \/ SetupLighting
    \/ ModelDownloadHdri
    \/ ModelSetupHdri
    \/ ConfigureRenderSettings
    \/ Export
    \/ GenerateViewer
    \/ Finish

Spec == Init /\ [][Next]_vars

-----------------------------------------------------------------------------
(* Repeated invocations of the script over the same directories *)

\* The script is invoked again: a new Blender process, the same disk.
NewRun ==
    /\ Ended
    /\ run < MaxRuns
    /\ run' = run + 1
    /\ pc' = "start"
    /\ idx' = 1
    /\ objs' = StartupObjs
    /\ selected' = {1}
    /\ queue' = <<>>
    /\ cur' = 0
    /\ nextId' = 4
    /\ imgSpace' = NoImages
    /\ world' = StartupWorld
    /\ panorama' = "unknown"
    /\ history' = [InitHistory(FALSE) EXCEPT
                      !.fetches = history.fetches,
                      !.topos = history.topos,
                      !.hadFile = [history.hadFile EXCEPT ![run + 1] = (hdriFile # "absent")]]
    /\ UNCHANGED <<texFiles, hdriFile>>

InitRuns ==
    /\ Init
    /\ texFiles = [ch \in Channels |-> "absent"]

NextRuns ==
    \/ Next
    \/ NewRun

SpecRuns == InitRuns /\ [][NextRuns]_vars

-----------------------------------------------------------------------------
(* process_materials on its own: one mesh in the loop, about to be shaded, *)
(* for every material name, texture directory and slot list of the bounds  *)

MatSlots ==
    {<<>>, <<NoMat>>}
    \cup {<<Mat(n, t)>> : n \in MaterialNames, t \in {EmptyTree, ImportedTree}}
    \cup {<<NoMat, Mat(n, ImportedTree)>> : n \in NameParts}
    \cup {<<Mat(n, SynthesizedTree)>> : n \in NameParts}

InitMat ==
    /\ pc = "shade"
    /\ run = 1
    /\ idx = 1
    /\ \E sl \in MatSlots :
        objs = AddObj(<<>>, 1,
                 [MeshObj(<<"Band">>, <<0 - 2, 2>>, 1, 0, 0, 2, TRUE, sl)
                    EXCEPT !.origin = 1, !.log = <<"TransformBaked", "OriginCentered">>])
    /\ selected = {1}
    /\ queue = <<>>
    /\ cur = 1
    /\ nextId = 2
    /\ texFiles \in AllTexFiles
    /\ hdriFile = "good"
    /\ imgSpace = (HdrImage :> "Filmic sRGB")
    /\ world = SetupHdri(StartupWorld, "good")
    /\ panorama = "loaded"
    /\ history = [InitHistory(TRUE) EXCEPT !.attempted = {1}, !.resets = {1},
                                           !.imports = {1},
                                           !.topos[1] = {Topology(world.tree)}]

NextMat == Shade

SpecMat == InitMat /\ [][NextMat]_vars

-----------------------------------------------------------------------------
(* The normalization loop on its own: the scene right after an import, for *)
(* every list of meshes of the bounds, and the loop run again over the     *)
(* meshes that reached Done                                                *)

InitRenorm ==
    /\ pc = "for"
    /\ run = 1
    /\ idx = 1
    /\ \E new \in SeqsUpTo(LoopMeshes, MaxMeshes) \ {<<>>} :
        /\ objs = AddAll(<<>>, 1, Stamp(new, 1))
        /\ selected \in {{}, DOMAIN objs}
        /\ queue = SortedIds(DOMAIN objs)
        /\ nextId = Len(new) + 1
    /\ cur = 0
    /\ texFiles \in PipelineTexFiles
    /\ hdriFile = "good"
    /\ imgSpace = (HdrImage :> "Filmic sRGB")
    /\ world = SetupHdri(StartupWorld, "good")
    /\ panorama = "loaded"
    /\ history = [InitHistory(TRUE) EXCEPT !.attempted = {1}, !.resets = {1},
                                           !.imports = {1},
                                           !.topos[1] = {Topology(world.tree)}]

\* The for loop of process_model (lines 298-328) is started again over
\* the same meshes.
Renormalize ==
    /\ pc = "camera"
    /\ history.passes < MaxPasses
    /\ history' = [history EXCEPT !.passes = @ + 1, !.snapshot = objs]
    /\ queue' = SortedIds({i \in DOMAIN objs : objs[i].type = "MESH"})
    /\ pc' = "for"
    /\ UNCHANGED <<run, idx, objs, selected, cur, nextId, texFiles, hdriFile,
                   imgSpace, world, panorama>>

NextRenorm ==
    \/ ForObj
    \/ TransformBake
    \/ OriginCenter
    \/ Shade
    \/ Smooth
    \/ FixNormals
    \/ Deselect
    \/ Renormalize

SpecRenorm == InitRenorm /\ [][NextRenorm]_vars

-----------------------------------------------------------------------------
(* Claims about process_materials *)

SameLetter(c, d) ==
    \/ c = d
    \/ \E i \in 1..Len(UpperCase) : {c, d} = {UpperCase[i], LowerCase[i]}

\* sub (lower case) occurs in s, whatever the case of the letters of s
Occurs(s, sub) ==
    \E i \in 0..(Len(s) - Len(sub)) :
        \A k \in 1..Len(sub) : SameLetter(s[i + k], sub[k])

\* The materials of the object that process_materials has just handled.
Shaded == {objs[cur].slots[i] : i \in {j \in 1..Len(objs[cur].slots) :
                                          HasMaterial(objs[cur].slots[j])}}

\* The rule table of the classification, first match wins.
RuleTable(name) ==
    IF Occurs(name, gold)
    THEN [Metallic |-> "1.0", Roughness |-> "0.2"]
    ELSE IF Occurs(name, silver) \/ Occurs(name, metal)
    THEN [Metallic |-> "1.0", Roughness |-> "0.1"]
    ELSE IF Occurs(name, diamond) \/ Occurs(name, gem)
    THEN [Metallic |-> "0.0", Roughness |-> "0.02", Transmission |-> "1.0", IOR |-> "2.4"]
    ELSE [Metallic |-> "0.0", Roughness |-> "0.7", Specular |-> "0.5"]

Available == {ch \in Channels : texFiles[ch] = "good"}

SurfaceSocket(ch) ==
    CASE ch = "albedo" -> "Base Color"
      [] ch = "normal" -> "Normal"
      [] ch = "roughness" -> "Roughness"
      [] ch = "metallic" -> "Metallic"

Samplers(tree) == NodesOfType(tree, "ShaderNodeTexImage")

\* the links that end in socket of the surface node
Feeding(tree, socket) == {l \in tree.links : l[3] = "bsdf" /\ l[4] = socket}

\* sampler node v is fed by the mapping node and feeds the surface socket
\* of its channel, the normal sampler through a normal-map decode node
Wired(tree, v, ch) ==
    /\ Link("mapping", "Vector", v, "Vector") \in tree.links
    /\ IF ch = "normal"
       THEN \E d \in NodesOfType(tree, "ShaderNodeNormalMap") :
               /\ Link(v, "Color", tree.nodes[d].var, "Color") \in tree.links
               /\ Feeding(tree, "Normal") = {Link(tree.nodes[d].var, "Normal", "bsdf", "Normal")}
       ELSE Feeding(tree, SurfaceSocket(ch)) = {Link(v, "Color", "bsdf", SurfaceSocket(ch))}

\* C2: the graph of every processed material has one sampler for each
\* available channel and no other sampler; each sampler is wired to the
\* surface input of its channel; the surface input of an absent channel is
\* fed by no link and keeps the classified value; with only base color
\* available there is exactly one sampler, on Base Color, tagged sRGB.
C2_SamplersMatchChannels ==
    pc = "smooth" =>
        \A m \in Shaded :
            /\ Cardinality(Samplers(m.tree)) = Cardinality(Available)
            /\ \A ch \in Available :
                  \E i \in Samplers(m.tree) :
                      /\ m.tree.nodes[i].image = ch
                      /\ Wired(m.tree, m.tree.nodes[i].var, ch)
            /\ \A ch \in Channels \ Available :
                  /\ Feeding(m.tree, SurfaceSocket(ch)) = {}
                  /\ SurfaceSocket(ch) \in DOMAIN RuleTable(m.name) =>
                        m.inputs[SurfaceSocket(ch)] = RuleTable(m.name)[SurfaceSocket(ch)]
            /\ Available = {"albedo"} =>
                  /\ Cardinality(Samplers(m.tree)) = 1
                  /\ imgSpace["albedo"] = "sRGB"

\* A material that came with an imported graph was processed with only
\* the base-color texture available.
C2_Witness ==
    /\ pc = "smooth"
    /\ Available = {"albedo"}
    /\ \E m \in Shaded :
        /\ Cardinality(Samplers(m.tree)) = 1
        /\ Link("tex_color", "Color", "bsdf", "Base Color") \in m.tree.links

-----------------------------------------------------------------------------
(* Claims about the pipeline *)

\* C3: when a stage of one asset fails after the check of its source
\* file, the run still attempts every asset of the list before it ends.
C3_FailureDoesNotStopRun ==
    (Ended /\ history.failed # {}) => history.attempted = Assets

\* C4: an asset whose source file is missing gets no scene reset, import,
\* export or viewer page, and every other asset of the list is processed
\* through Export and GenerateViewer.
C4_MissingSourceSkipped ==
    /\ history.skipped \cap (history.resets \cup history.imports
                             \cup history.exported \cup history.viewerStage) = {}
    /\ (Ended /\ history.skipped # {}) =>
          /\ history.attempted = Assets
          /\ Assets \ history.skipped \subseteq (history.exported \cap history.viewerStage)

\* The world graph as setup_hdri builds it.
EnvTopology == Topology(SetupHdri(StartupWorld, "good").tree)

EnvNodes(w) == NodesOfType(w.tree, "ShaderNodeTexEnvironment")

IsFallbackWorld(w) ==
    /\ Topology(w.tree) = EnvTopology
    /\ \E i \in EnvNodes(w) : w.tree.nodes[i].image = NoImage
    /\ w.env_color = FallbackColor

\* C5: whenever the panorama is unavailable, because the fetch or the
\* image load failed, the world graph has been built with the environment
\* node kept, without image, on the fallback color, and with the nodes and
\* links of the graph of a loaded panorama.
C5_FallbackWhenUnavailable ==
    panorama \in {"fetch_failed", "load_failed"} => IsFallbackWorld(world)

\* C6: a run that started with the panorama file present fetched nothing,
\* any run fetched at most once, and every world graph built in any run
\* has the same topology.
C6_FetchOnlyWhenAbsent ==
    /\ \A r \in 1..run :
        /\ history.hadFile[r] => history.fetches[r] = 0
        /\ history.fetches[r] <= 1
    /\ Cardinality(UNION {history.topos[r] : r \in 1..run}) <= 1

\* A second run found the file the first run fetched, and both runs
\* completed with a world graph built.
C6_Witness ==
    /\ run = 2
    /\ pc = "done"
    /\ history.fetches[1] = 1
    /\ history.hadFile[2]
    /\ history.topos[1] # {}
    /\ history.topos[2] # {}
    /\ history.exported # {}

Meshes == {i \in DOMAIN objs : objs[i].type = "MESH"}

Did(i, step) == \E k \in 1..Len(objs[i].log) : objs[i].log[k] = step

\* C7 as stated: a mesh with zero polygons that reached Done went through
\* neither the Smoothed step nor the NormalsFixed step.
C7_ZeroPolygonsSkipBoth ==
    \A i \in Meshes :
        (objs[i].polys = 0 /\ Did(i, "Done")) =>
            (~Did(i, "Smoothed") /\ ~Did(i, "NormalsFixed"))

\* C7 amended: a mesh with zero polygons never goes through the Smoothed
\* step (no polygon flagged smooth, auto-smooth settings untouched), and
\* when it has reached Done the normal recomputation has been run on it.
C7_ZeroPolygonsSkipSmoothOnly ==
    \A i \in Meshes :
        objs[i].polys = 0 =>
            /\ ~Did(i, "Smoothed")
            /\ objs[i].smooth = 0
            /\ ~objs[i].use_auto_smooth
            /\ objs[i].auto_smooth_angle = NodeDefault
            /\ Did(i, "Done") => Did(i, "NormalsFixed")

\* A mesh without polygons reached Done next to a smoothed mesh.
C7_Witness ==
    /\ \E i \in Meshes : objs[i].polys = 0 /\ Did(i, "Done")
    /\ \E i \in Meshes : objs[i].polys > 0 /\ Did(i, "Smoothed") /\ objs[i].use_auto_smooth

Gone == (DOMAIN objs) \ (DOMAIN objs')

\* C8 as stated: only clear_scene takes objects out of the
\* scene.
C8_OnlyClearSceneRemoves ==
    [][Gone # {} => pc = "clear"]_vars

\* C8 amended: objects leave the scene only in clear_scene
\* and in setup_lighting, and setup_lighting removes nothing but lights.
C8_OnlyClearSceneAndLightingRemove ==
    [][\A i \in Gone :
          \/ pc = "clear"
          \/ pc = "lighting" /\ objs[i].type = "LIGHT"]_vars

\* setup_lighting has removed a light, and a camera and a mesh are still
\* in the scene.
C8_Witness ==
    /\ <<"lighting", "LIGHT">> \in history.removed
    /\ pc = "download_hdri"
    /\ \E i \in DOMAIN objs : objs[i].type = "CAMERA"
    /\ Meshes # {}

InAsset ==
    pc \in {"for", "bake", "center", "shade", "smooth", "normals", "deselect",
            "camera", "lighting", "download_hdri", "setup_hdri", "render", "export", "viewer"}

\* C9: at the import of an asset clear_scene has run for that asset and
\* the scene holds no mesh, light or camera; from then on every object of
\* the scene belongs to that asset's run.
C9_NoSharedSceneState ==
    /\ pc = "import" =>
          /\ idx \in history.resets
          /\ \A i \in DOMAIN objs : objs[i].type \notin {"MESH", "LIGHT", "CAMERA"}
    /\ InAsset => \A i \in DOMAIN objs : objs[i].origin = idx

\* An asset is about to be imported after an earlier asset was exported
\* (its run created three lights and possibly a camera).
C9_Witness ==
    /\ pc = "import"
    /\ idx > 1
    /\ (idx - 1) \in history.exported
    /\ <<"clear", "LIGHT">> \in history.removed
    /\ <<"clear", "CAMERA">> \in history.removed

\* C10: after the loop has run again over meshes that had reached Done,
\* every mesh has identity scale and rotation, sits at the world origin
\* and stores the geometry it stored after the previous pass.
C10_RenormalizeIdempotent ==
    (pc = "camera" /\ history.passes > 1) =>
        \A i \in Meshes :
            /\ objs[i].scale = 1
            /\ objs[i].rot = 0
            /\ objs[i].loc = 0
            /\ objs[i].verts = history.snapshot[i].verts

\* A second pass ended on a mesh that was imported scaled, rotated and
\* away from the origin and that the first pass changed.
C10_Witness ==
    /\ pc = "camera"
    /\ history.passes > 1
    /\ \E i \in Meshes :
        /\ Len(objs[i].verts) > 1
        /\ objs[i].verts # <<0, 4>>
        /\ objs[i].name = <<"Band">>
        /\ Len(objs[i].log) = 12

-----------------------------------------------------------------------------
(* Claims about the order of the steps and stages *)

StepOrder ==
    <<"TransformBaked", "OriginCentered", "Shaded", "Smoothed", "NormalsFixed", "Done">>

StepRank(step) == CHOOSE k \in 1..Len(StepOrder) : StepOrder[k] = step

\* The only step that may follow the steps a mesh has gone through (none
\* after Done); Smoothed is left out by a mesh without polygons.
StepAfter(o) ==
    LET last == IF o.log = <<>> THEN 0 ELSE StepRank(o.log[Len(o.log)])
        next == IF last = 3 /\ o.polys = 0 THEN 5 ELSE last + 1
    IN  IF next > Len(StepOrder) THEN {} ELSE {StepOrder[next]}

\* C11: a mesh starts Imported (no step), and each step it takes is the
\* step that follows its last one in the order TransformBaked,
\* OriginCentered, Shaded, Smoothed, NormalsFixed, Done (Smoothed is left
\* out only by a mesh without polygons): no step is taken twice or out of
\* order, so the bake precedes the origin centering and the normal
\* recomputation of the same mesh.
C11_StrictStepOrder ==
    /\ [][\A i \in Meshes \cap Meshes' :
            \/ objs'[i].log = objs[i].log
            \/ \E step \in StepAfter(objs[i]) : objs'[i].log = Append(objs[i].log, step)]_vars
    /\ [](\A i \in Meshes :
            /\ objs[i].log # <<>> => objs[i].log[1] = "TransformBaked"
            /\ \A j, k \in 1..Len(objs[i].log) :
                  j < k => StepRank(objs[i].log[j]) < StepRank(objs[i].log[k]))

\* One mesh went through all six steps and a mesh without polygons
\* reached Done in the same scene.
C11_Witness ==
    /\ \E i \in Meshes : objs[i].log = StepOrder
    /\ \E i \in Meshes :
        objs[i].log = <<"TransformBaked", "OriginCentered", "Shaded", "NormalsFixed", "Done">>

StageOrder ==
    <<"ResetScene", "Import", "Normalize", "EnsureCamera", "SetupLighting",
      "SetupEnvironment", "ConfigureRenderSettings", "Export", "GenerateViewer">>

IsPrefix(p, q) == Len(p) <= Len(q) /\ SubSeq(q, 1, Len(p)) = p

\* C12: the stages every asset has gone through are an initial part of
\* ResetScene, Import, Normalize, EnsureCamera, SetupLighting,
\* SetupEnvironment, ConfigureRenderSettings, Export, GenerateViewer (none
\* left out, repeated or out of order); once the Normalize stage of the
\* current asset is over, every imported mesh is Done, so the export sees
\* only Done meshes; an asset with a viewer stage went through all nine.
C12_StrictStageOrder ==
    /\ \A a \in Assets : IsPrefix(history.stages[a], StageOrder)
    /\ \A a \in history.viewerStage : history.stages[a] = StageOrder
    /\ \A a \in history.skipped : history.stages[a] = <<>>
    /\ (InAsset /\ Len(history.stages[idx]) >= 3) => \A i \in Meshes : Did(i, "Done")
    /\ pc = "viewer" => (idx \in history.exported /\ \A i \in Meshes : Did(i, "Done"))

\* The third asset is exported with the bounds' number of meshes, all
\* Done, after the first asset went through all nine stages.
C12_Witness ==
    /\ pc = "viewer"
    /\ idx = 3
    /\ history.stages[1] = StageOrder
    /\ Len(history.stages[3]) = 8
    /\ Cardinality(Meshes) = MaxMeshes

-----------------------------------------------------------------------------
(* Claims about the material graph as a whole *)

GraphVars(tree) == {tree.nodes[i].var : i \in 1..Len(tree.nodes)}

\* No cycle among the nodes vs along the links es: nodes without an
\* incoming link are taken away until none is left.
RECURSIVE Acyclic(_, _)
Acyclic(vs, es) ==
    IF vs = {} THEN TRUE
    ELSE LET sources == {v \in vs : ~ \E e \in es : e[3] = v /\ e[1] \in vs}
         IN  IF sources = {} THEN FALSE ELSE Acyclic(vs \ sources, es)

OneOutputFedBySurface(tree) ==
    /\ Cardinality(NodesOfType(tree, "ShaderNodeOutputMaterial")) = 1
    /\ Cardinality(NodesOfType(tree, "ShaderNodeBsdfPrincipled")) = 1
    /\ \E o \in NodesOfType(tree, "ShaderNodeOutputMaterial") :
       \E b \in NodesOfType(tree, "ShaderNodeBsdfPrincipled") :
          {l \in tree.links : l[3] = tree.nodes[o].var}
              = {Link(tree.nodes[b].var, "BSDF", tree.nodes[o].var, "Surface")}

\* C13: after process_materials, the graph of every material of the mesh
\* is acyclic, its links join nodes of the graph, and it has exactly one
\* output node, fed only by the one surface node, whatever textures were
\* found and whatever graph the material carried before; a slot without a
\* material stays without one and a mesh without slots stays without slots.
C13_GraphWellFormed ==
    pc = "smooth" =>
        /\ Len(objs[cur].slots) = Len(history.before)
        /\ \A i \in 1..Len(history.before) :
            IF HasMaterial(history.before[i])
            THEN LET tree == objs[cur].slots[i].tree
                 IN  /\ HasMaterial(objs[cur].slots[i])
                     /\ \A l \in tree.links : {l[1], l[3]} \subseteq GraphVars(tree)
                     /\ Cardinality(GraphVars(tree)) = Len(tree.nodes)
                     /\ Acyclic(GraphVars(tree), tree.links)
                     /\ OneOutputFedBySurface(tree)
            ELSE objs[cur].slots[i] = history.before[i]

\* A material that carried a previously synthesized graph with all four
\* samplers is processed when only some of the textures are found.
C13_Witness ==
    /\ pc = "smooth"
    /\ Len(history.before) = 1
    /\ HasMaterial(history.before[1])
    /\ history.before[1].tree = SynthesizedTree
    /\ Available # {} /\ Available # Channels
    /\ objs[cur].slots[1].tree # SynthesizedTree

-----------------------------------------------------------------------------
(* Claims about what the steps of the loop do to the meshes *)

\* The mesh of the imported file that o was created from.
ImportedAs(o) == CHOOSE m \in PipelineMeshes : m.name = o.name

\* C14: when the TransformBaked step of a mesh is over, its scale and
\* rotation are identity and its geometry is the imported geometry with
\* the imported scale and rotation applied to it.
C14_ScaleRotationBaked ==
    pc = "center" =>
        /\ objs[cur].scale = 1
        /\ objs[cur].rot = 0
        /\ objs[cur].verts = TransformApply(ImportedAs(objs[cur])).verts

NormSteps == {"bake", "center", "shade", "smooth", "normals"}

\* C15: during the steps of the mesh the loop is at, that mesh is the only
\* selected object and no step changes any other mesh.
C15_OnlyCurrentMeshChanges ==
    [][(pc \in NormSteps) =>
          (selected = {cur} /\ \A i \in Meshes \ {cur} : objs'[i] = objs[i])]_vars

=============================================================================
